---- MODULE Spec2Model ----
(***************************************************************************)
(* Outage-response pipeline of AI_agent.py: the nearest-available-crew     *)
(* selection (calculate_distance, get_available_crew) and the batch loop    *)
(* that assigns a crew, builds the report and sends the alert for every     *)
(* active outage.                                                           *)
(*                                                                          *)
(* Coordinates are degrees scaled by 100000 (1.01 degrees is 101000);       *)
(* distances are hundredths of a kilometre, which is exact because          *)
(* calculate_distance rounds to 2 decimals.  A CSV cell is a record         *)
(* [kind, v]: a number, a missing value (NaN) or a string (a column that    *)
(* pandas could not parse as numbers holds strings in every row).           *)
(***************************************************************************)
EXTENDS Integers, Sequences, FiniteSets, TLC

VARIABLES
    crew_df,          \* rows of crew_data.csv: [avail, lat, lon]
    outage_df,        \* rows of outage_data.csv: [status, lat, lon]
    active_outages,   \* indices of outage_df kept by the status filter, in order
    pos,              \* number of loop iterations completed
    pc,               \* "loop" while iterating, "done" after the final print
    crew,             \* loop local: result of get_available_crew
    crew_assignment,  \* loop local: the assignment text put in the alert
    nav_map_link,     \* loop local: navigation link put in the alert
    pdf_filename,     \* loop local: which report file was produced
    attached,         \* loop local: whether msg carries the report
    processed_count,  \* alerts sent
    files,            \* outage indices whose report file is on disk
    sent,             \* outage indices whose alert e-mail was delivered
    attempted,        \* history: outage indices the loop body was entered for
    assignments,      \* history: what the assignment step produced per attempt
    outcomes          \* history: how each attempt ended

vars == <<crew_df, outage_df, active_outages, pos, pc, crew, crew_assignment,
          nav_map_link, pdf_filename, attached, processed_count,
          files, sent, attempted, assignments, outcomes>>

-----------------------------------------------------------------------------
(* Bounds of the explored inputs. *)
MaxCrews == 2
MaxOutages == 2

-----------------------------------------------------------------------------
(* CSV cells and the coordinates explored. *)
Num(x) == [kind |-> "num", v |-> x]
NaN == [kind |-> "nan", v |-> 0]
StrCell == [kind |-> "str", v |-> 0]

Point(la, lo) == [lat |-> la, lon |-> lo]

\* Outage locations: a valid one, one with a missing latitude, one from a
\* latitude column read as strings.
OutagePoints ==
    { Point(Num(101000), Num(101000)),
      Point(NaN, Num(101000)),
      Point(StrCell, Num(101000)) }

\* Crew locations: 0.75 km, 1.25 km (north), 1.25 km (south) and 1.40 km from
\* the valid outage location, one with longitude 190 degrees, one with a
\* missing latitude, one from a latitude column read as strings.
CrewPoints ==
    { Point(Num(101674), Num(101000)),
      Point(Num(102124), Num(101000)),
      Point(Num(99876), Num(101000)),
      Point(Num(102259), Num(101000)),
      Point(Num(101000), Num(19000000)),
      Point(NaN, Num(101000)),
      Point(StrCell, Num(101000)) }

Availability == {"Yes", "No"}
Statuses == {"Detected", "Pending", "Dispatched", "Resolved"}

CrewRows == { [avail |-> a, lat |-> p.lat, lon |-> p.lon] :
                a \in Availability, p \in CrewPoints }

OutageRows == { [status |-> s, lat |-> p.lat, lon |-> p.lon] :
                s \in Statuses, p \in OutagePoints }

\* Rosters and outage rows of the multi-outage runs.
BatchCrewRows == { r \in CrewRows : r.lat = Num(101674) }
BatchOutageRows ==
    { r \in OutageRows : \/ r.lat = Num(101000)
                          \/ (r.lat = NaN /\ r.status = "Detected")
                          \/ (r.lat = StrCell /\ r.status \in {"Detected", "Resolved"}) }

SeqsUpTo(S, n) == UNION { [1..k -> S] : k \in 0..n }

\* read_csv gives a column one dtype: float64 (numbers and NaN) or object
\* (every cell a string).
ColumnDtypeOK(df) ==
    (\E i \in 1..Len(df) : df[i].lat.kind = "str")
        => (\A i \in 1..Len(df) : df[i].lat.kind = "str")

-----------------------------------------------------------------------------
(* calculate_distance: the haversine formula, rounded to 2 decimals.  The   *)
(* table holds round(R*c, 2)*100 as the function computes it for each pair  *)
(* of explored numeric coordinates (outage first, crew second); none of     *)
(* them makes sqrt raise.                                                    *)
HaversineTable ==
       <<101000, 101000, 101674, 101000>> :> 75
    @@ <<101000, 101000, 102124, 101000>> :> 125
    @@ <<101000, 101000, 99876, 101000>> :> 125
    @@ <<101000, 101000, 102259, 101000>> :> 140
    @@ <<101000, 101000, 101000, 19000000>> :> 1899057

\* radians() raises TypeError on a string; a NaN argument propagates through
\* sin, cos, sqrt, atan2 and round to a NaN result.
calculate_distance(lat1, lon1, lat2, lon2) ==
    LET kinds == {lat1.kind, lon1.kind, lat2.kind, lon2.kind} IN
    IF "str" \in kinds THEN [kind |-> "TypeError", v |-> 0]
    ELSE IF "nan" \in kinds THEN NaN
    ELSE Num(HaversineTable[<<lat1.v, lon1.v, lat2.v, lon2.v>>])

-----------------------------------------------------------------------------
(* get_available_crew *)
NoneCrew == [kind |-> "None", idx |-> 0, distance |-> NaN]
UnboundCrew == [kind |-> "unbound", idx |-> 0, distance |-> NaN]
RaisedCrew(e) == [kind |-> e, idx |-> 0, distance |-> NaN]

\* Variant: the availability filter lets every row through.
IsAvailableAnyFlag(row) == row.avail \in {"Yes", "No"}

\* crew_df[crew_df["Crew ID available"] == "Yes"]
IsAvailable(row) == row.avail = "Yes"

Candidates(df) == { i \in 1..Len(df) : IsAvailable(df[i]) }

MinIndex(S) == CHOOSE i \in S : \A j \in S : i <= j

MaxIndex(S) == CHOOSE i \in S : \A j \in S : i >= j

\* Variant: nsmallest(1, "distance", keep="last"), the last row wins a tie.
nsmallestKeepLast(dist) ==
    LET dropped == { i \in DOMAIN dist : dist[i].kind = "num" } IN
    IF dropped = {} THEN MinIndex(DOMAIN dist)
    ELSE MaxIndex({ i \in dropped : \A j \in dropped : dist[i].v <= dist[j].v })

\* candidates.nsmallest(1, "distance"): NaN distances are set aside, the
\* smallest of the rest wins and the first row wins a tie; when every
\* distance is NaN the first row is returned.
nsmallest(dist) ==
    LET dropped == { i \in DOMAIN dist : dist[i].kind = "num" } IN
    IF dropped = {} THEN MinIndex(DOMAIN dist)
    ELSE MinIndex({ i \in dropped : \A j \in dropped : dist[i].v <= dist[j].v })

\* Variant: the emptiness test is len(candidates) <= 1.
get_available_crewNeedsTwo(df, lat, lon) ==
    LET candidates == Candidates(df)
        dist == [ i \in candidates |->
                    calculate_distance(lat, lon, df[i].lat, df[i].lon) ]
    IN  IF Cardinality(candidates) <= 1 THEN NoneCrew
        ELSE IF \E i \in candidates : dist[i].kind = "TypeError"
             THEN RaisedCrew("TypeError")
        ELSE LET i == nsmallest(dist)
             IN  [kind |-> "row", idx |-> i, distance |-> dist[i]]

get_available_crew(df, lat, lon) ==
    LET candidates == Candidates(df)
        dist == [ i \in candidates |->
                    calculate_distance(lat, lon, df[i].lat, df[i].lon) ]
    IN  IF candidates = {} THEN NoneCrew
        ELSE IF \E i \in candidates : dist[i].kind = "TypeError"
             THEN RaisedCrew("TypeError")
        ELSE LET i == nsmallest(dist)
             IN  [kind |-> "row", idx |-> i, distance |-> dist[i]]

\* Variant: the chosen crew is marked busy in the shared pool.
PoolAfterAssignBusy(df, c) ==
    IF c.kind = "row" THEN [df EXCEPT ![c.idx].avail = "No"] ELSE df

\* The assignment works on a copy of the filtered pool (.copy()): the
\* shared crew_df is what it was.
PoolAfterAssign(df, c) == df

-----------------------------------------------------------------------------
(* The loop body's assignment step (lines 317-339). *)

\* Variant: round(distance * 2), halves up.
EtaMinutesRounded(d100) == (2 * d100 + 50) \div 100

\* int(crew['distance'] * 2)
EtaMinutes(d100) == (2 * d100) \div 100

NoAssignment == [kind |-> "unbound", crew |-> 0, distance |-> NaN, eta |-> 0]
ManualAssignment == [kind |-> "manual", crew |-> 0, distance |-> NaN, eta |-> 0]
CrewAssignment(c) ==
    [kind |-> "crew", crew |-> c.idx, distance |-> c.distance,
     eta |-> EtaMinutes(c.distance.v)]

NoLink == [kind |-> "unbound", origin |-> 0, outage |-> 0]
\* generate_navigation_map_link: a route from the crew to the outage.
generate_navigation_map_link(o, c) == [kind |-> "route", origin |-> c, outage |-> o]
\* gm_link: the outage's own map link.
GmLink(o) == [kind |-> "gm", origin |-> 0, outage |-> o]

\* Variant: a NaN distance is formatted like any other.
EtaRaisesNever(c) == FALSE

\* The assignment text is built only when int() accepts the distance:
\* int(nan) raises ValueError.
EtaRaises(c) == c.distance.kind /= "num"

\* Variant: the handler leaves the loop (break).
AfterErrorBreak(p, n) == n

\* except Exception ... continue: the loop goes on with the next outage.
AfterError(p, n) == p + 1

\* Variant: processed_count += 1 stands before the send, so a failed send is
\* counted too.
CountAfterFailedSendCounted(n) == n + 1

\* except Exception as e: print(...) of the send (lines 483-484): the count
\* is what it was.
CountAfterFailedSend(n) == n

\* Variant: everything not Resolved is processed.
IsActiveUnresolved(status) == status /= "Resolved"

\* isin(["Pending", "Detected"])
IsActive(status) == status \in {"Pending", "Detected"}

\* outage_df[outage_df["outage status"].isin(["Pending", "Detected"])]
ActiveOutages(df) == SelectSeq([i \in 1..Len(df) |-> i], LAMBDA i : IsActive(df[i].status))

-----------------------------------------------------------------------------
InitLocals ==
    /\ pos = 0
    /\ pc = "loop"
    /\ crew = UnboundCrew
    /\ crew_assignment = NoAssignment
    /\ nav_map_link = NoLink
    /\ pdf_filename = "unbound"
    /\ attached = FALSE
    /\ processed_count = 0
    /\ files = {}
    /\ sent = {}
    /\ attempted = <<>>
    /\ assignments = <<>>
    /\ outcomes = <<>>

\* Any roster up to MaxCrews against a single outage, and any batch of up to
\* MaxOutages outages against the rosters of one crew location.
Init ==
    /\ \/ /\ crew_df \in { df \in SeqsUpTo(CrewRows, MaxCrews) : ColumnDtypeOK(df) }
          /\ outage_df \in { <<r>> : r \in { x \in OutageRows :
                                              /\ x.status = "Detected"
                                              /\ x.lat.kind /= "str" } }
       \/ /\ crew_df \in SeqsUpTo(BatchCrewRows, MaxCrews)
          /\ outage_df \in { df \in SeqsUpTo(BatchOutageRows, MaxOutages) :
                                ColumnDtypeOK(df) }
    /\ active_outages = ActiveOutages(outage_df)
    /\ InitLocals

-----------------------------------------------------------------------------
(* The main loop: one iteration per active outage (lines 299-488). *)

CurrentOutage == active_outages[pos + 1]

\* crew = get_available_crew(crew_df, comp_lat, comp_lon)
Returned ==
    get_available_crew(crew_df, outage_df[CurrentOutage].lat,
                       outage_df[CurrentOutage].lon)

\* What the if/else of lines 318-339 assigns once get_available_crew returned
\* and the ETA could be formatted.
AssignmentFor(c) ==
    IF c.kind = "row" THEN CrewAssignment(c) ELSE ManualAssignment

LinkFor(o, c) ==
    IF c.kind = "row" THEN generate_navigation_map_link(o, c.idx) ELSE GmLink(o)

Entry(o, c, a, l) == [outage |-> o, returned |-> c, a |-> a, link |-> l]
ErrorAssignment == [kind |-> "error", crew |-> 0, distance |-> NaN, eta |-> 0]

\* Every iteration: the loop is at an outage it has not visited, and the call
\* of get_available_crew (returning c) leaves the shared pool as
\* PoolAfterAssign says.
Enter(o, c) ==
    /\ attempted' = Append(attempted, o)
    /\ crew_df' = PoolAfterAssign(crew_df, c)
    /\ UNCHANGED <<outage_df, active_outages, pc>>

\* The locals lines 317-339 assign when the assignment step succeeds.  The
\* analysis that follows cannot fail here: generate_ai_analysis catches every
\* exception itself and returns the fallback text (lines 76-129).
Assigned(o, c) ==
    /\ c.kind \in {"row", "None"}
    /\ c.kind = "row" => ~EtaRaises(c)
    /\ crew' = c
    /\ crew_assignment' = AssignmentFor(c)
    /\ nav_map_link' = LinkFor(o, c)
    /\ assignments' = Append(assignments,
                             Entry(o, c, AssignmentFor(c), LinkFor(o, c)))

\* get_available_crew raised (TypeError from radians): nothing was assigned.
IterAssignError ==
    /\ pc = "loop"
    /\ pos < Len(active_outages)
    /\ LET o == CurrentOutage
           c == Returned
       IN  /\ c.kind = "TypeError"
           /\ Enter(o, c)
           /\ assignments' = Append(assignments, Entry(o, c, ErrorAssignment, NoLink))
    /\ outcomes' = Append(outcomes, "assign_error")
    /\ pos' = AfterError(pos, Len(active_outages))
    /\ UNCHANGED <<crew, crew_assignment, nav_map_link, pdf_filename,
                   attached, processed_count, files, sent>>

\* A crew was returned but int(distance * 2) raised (NaN distance): crew is
\* bound, the assignment text is not.
IterEtaError ==
    /\ pc = "loop"
    /\ pos < Len(active_outages)
    /\ LET o == CurrentOutage
           c == Returned
       IN  /\ c.kind = "row"
           /\ EtaRaises(c)
           /\ Enter(o, c)
           /\ crew' = c
           /\ assignments' = Append(assignments, Entry(o, c, ErrorAssignment, NoLink))
    /\ outcomes' = Append(outcomes, "eta_error")
    /\ pos' = AfterError(pos, Len(active_outages))
    /\ UNCHANGED <<crew_assignment, nav_map_link, pdf_filename,
                   attached, processed_count, files, sent>>

\* generate_pdf_report: the PDF build failed and writing the text fallback
\* raised too.
IterReportError ==
    /\ pc = "loop"
    /\ pos < Len(active_outages)
    /\ LET o == CurrentOutage
           c == Returned
       IN  /\ Assigned(o, c)
           /\ Enter(o, c)
    /\ outcomes' = Append(outcomes, "report_error")
    /\ pos' = AfterError(pos, Len(active_outages))
    /\ UNCHANGED <<pdf_filename, attached, processed_count, files, sent>>

\* The report was written (PDF, or the text fallback), attaching it worked or
\* not (the failure is printed and swallowed), and SMTP failed: the inner
\* handler prints, nothing is counted, the report file stays.
IterSendFailed ==
    /\ pc = "loop"
    /\ pos < Len(active_outages)
    /\ LET o == CurrentOutage
           c == Returned
       IN  /\ Assigned(o, c)
           /\ Enter(o, c)
           /\ files' = files \cup {o}
    /\ pdf_filename' \in {"pdf", "txt"}
    /\ attached' \in BOOLEAN
    /\ processed_count' = CountAfterFailedSend(processed_count)
    /\ outcomes' = Append(outcomes, "send_failed")
    /\ pos' = pos + 1
    /\ UNCHANGED sent

\* The alert was sent: processed_count += 1 and the report file is removed.
IterSent ==
    /\ pc = "loop"
    /\ pos < Len(active_outages)
    /\ LET o == CurrentOutage
           c == Returned
       IN  /\ Assigned(o, c)
           /\ Enter(o, c)
           /\ sent' = sent \cup {o}
           /\ files' = files \ {o}
    /\ pdf_filename' \in {"pdf", "txt"}
    /\ attached' \in BOOLEAN
    /\ processed_count' = processed_count + 1
    /\ outcomes' = Append(outcomes, "sent")
    /\ pos' = pos + 1

\* The alert was sent and counted, then os.remove raised: the same inner
\* handler prints, the count stays incremented, the report file stays.
IterSentCleanupFailed ==
    /\ pc = "loop"
    /\ pos < Len(active_outages)
    /\ LET o == CurrentOutage
           c == Returned
       IN  /\ Assigned(o, c)
           /\ Enter(o, c)
           /\ sent' = sent \cup {o}
           /\ files' = files \cup {o}
    /\ pdf_filename' \in {"pdf", "txt"}
    /\ attached' \in BOOLEAN
    /\ processed_count' = processed_count + 1
    /\ outcomes' = Append(outcomes, "cleanup_failed")
    /\ pos' = pos + 1

\* The for loop is exhausted: the final print.
Finish ==
    /\ pc = "loop"
    /\ pos >= Len(active_outages)
    /\ pc' = "done"
    /\ UNCHANGED <<crew_df, outage_df, active_outages, pos, crew, crew_assignment,
                   nav_map_link, pdf_filename, attached,
                   processed_count, files, sent, attempted, assignments, outcomes>>

Next ==
    \/ IterAssignError
    \/ IterEtaError
    \/ IterReportError
    \/ IterSendFailed
    \/ IterSent
    \/ IterSentCleanupFailed
    \/ Finish

Spec == Init /\ [][Next]_vars

-----------------------------------------------------------------------------
(* Vocabulary of the properties.  Distances compare as floats do: a         *)
(* comparison with NaN is false.                                             *)

Attempts == 1..Len(assignments)
Crews == 1..Len(crew_df)
YesCrews == { i \in Crews : crew_df[i].avail = "Yes" }

DistanceTo(o, i) ==
    calculate_distance(outage_df[o].lat, outage_df[o].lon,
                       crew_df[i].lat, crew_df[i].lon)

FloatLeq(d1, d2) == d1.kind = "num" /\ d2.kind = "num" /\ d1.v <= d2.v
FloatLess(d1, d2) == d1.kind = "num" /\ d2.kind = "num" /\ d1.v < d2.v
FloatEq(d1, d2) == d1.kind = "num" /\ d2.kind = "num" /\ d1.v = d2.v

\* C1: whenever get_available_crew returned a crew, that crew's availability
\* flag is "Yes"; a crew flagged otherwise is never returned, however near.
C1_OnlyAvailableReturned ==
    \A k \in Attempts :
        assignments[k].returned.kind = "row"
            => crew_df[assignments[k].returned.idx].avail = "Yes"

\* A crew was returned although an unavailable crew is strictly nearer to the
\* outage than every available one.
C1_Witness ==
    \E k \in Attempts :
        /\ assignments[k].returned.kind = "row"
        /\ \E j \in Crews \ YesCrews :
              \A i \in YesCrews :
                  FloatLess(DistanceTo(assignments[k].outage, j),
                            DistanceTo(assignments[k].outage, i))

\* C2: get_available_crew returns None exactly when no crew of the pool is
\* flagged "Yes" (the empty pool included), and then the loop emits the
\* manual-assignment result: no crew reference, no distance, the outage's own
\* map link.
C2_SentinelIffNoneAvailable ==
    \A k \in Attempts :
        /\ (assignments[k].returned.kind = "None") <=> (YesCrews = {})
        /\ YesCrews = {} =>
              /\ assignments[k].a.kind = "manual"
              /\ assignments[k].a.crew = 0
              /\ assignments[k].a.distance.kind /= "num"
              /\ assignments[k].link.kind = "gm"

\* A non-empty pool without an available crew: the alert that went out
\* carried the manual-assignment result.
C2_Witness ==
    /\ Len(crew_df) > 0
    /\ YesCrews = {}
    /\ \E k \in Attempts :
          /\ assignments[k].a.kind = "manual"
          /\ outcomes[k] = "sent"

\* C3 (as stated): when a crew is assigned, its computed distance is less
\* than or equal to the computed distance of every available crew of the
\* pool.
C3_ReturnedIsNearest ==
    \A k \in Attempts :
        assignments[k].a.kind = "crew"
            => \A i \in YesCrews :
                  FloatLeq(assignments[k].returned.distance,
                           DistanceTo(assignments[k].outage, i))

\* C4: among the available crews at the minimum distance, the one returned is
\* the first in pool order.
C4_FirstWinsTie ==
    \A k \in Attempts :
        assignments[k].returned.kind = "row"
            => \A i \in YesCrews :
                  FloatEq(DistanceTo(assignments[k].outage, i),
                          assignments[k].returned.distance)
                      => assignments[k].returned.idx <= i

\* Two available crews at different places share the minimum distance and the
\* earlier one was returned.
C4_Witness ==
    \E k \in Attempts :
        /\ assignments[k].returned.kind = "row"
        /\ \E i \in YesCrews :
              /\ i > assignments[k].returned.idx
              /\ crew_df[i].lat /= crew_df[assignments[k].returned.idx].lat
              /\ FloatEq(DistanceTo(assignments[k].outage, i),
                         assignments[k].returned.distance)
        /\ \A i \in YesCrews :
              FloatLeq(assignments[k].returned.distance,
                       DistanceTo(assignments[k].outage, i))

\* What has been attempted so far: exactly the first pos active outages, each
\* once and in input order, and all of them once the run has ended.
AttemptedInOrder ==
    /\ pos <= Len(active_outages)
    /\ attempted = SubSeq(active_outages, 1, pos)
    /\ Len(outcomes) = pos
    /\ pc = "done" => attempted = active_outages

\* C5: whatever failed for earlier outages, the loop has attempted exactly
\* the first pos active outages, each once and in input order; every step
\* either moves on to the next outage by one or, after the last one, ends
\* the run.
C5_FailureIsolation ==
    /\ []AttemptedInOrder
    /\ [][\/ (pos' = pos + 1 /\ pc' = "loop")
          \/ (pos' = pos /\ pos = Len(active_outages) /\ pc' = "done")]_vars

\* The run ended after an outage whose processing raised into the loop's
\* handler was followed by an outage whose alert was sent.
C5_Witness ==
    /\ pc = "done"
    /\ \E k \in 1..Len(outcomes) :
          /\ outcomes[k] \in {"assign_error", "eta_error", "report_error"}
          /\ \E n \in 1..Len(outcomes) : n > k /\ outcomes[n] = "sent"

\* C6: no step writes the crew pool.
C6_PoolNeverWritten == [][crew_df' = crew_df]_vars

\* One crew was assigned to two different outages of the same run.
C6_Witness ==
    \E k1, k2 \in Attempts :
        /\ k1 < k2
        /\ assignments[k1].outage /= assignments[k2].outage
        /\ assignments[k1].a.kind = "crew"
        /\ assignments[k2].a.kind = "crew"
        /\ assignments[k1].a.crew = assignments[k2].a.crew

\* C7: the outages to process are exactly those whose status is Detected or
\* Pending; for any other outage no assignment is computed and no alert sent.
C7_OnlyDetectedOrPending ==
    \A i \in 1..Len(outage_df) :
        IF outage_df[i].status \in {"Detected", "Pending"}
        THEN \E n \in 1..Len(active_outages) : active_outages[n] = i
        ELSE /\ \A n \in 1..Len(active_outages) : active_outages[n] /= i
             /\ \A k \in 1..Len(attempted) : attempted[k] /= i
             /\ \A k \in Attempts : assignments[k].outage /= i
             /\ i \notin sent
             /\ i \notin files

\* A finished run that skipped a Dispatched outage and alerted for another.
C7_Witness ==
    /\ pc = "done"
    /\ \E i \in 1..Len(outage_df) : outage_df[i].status = "Dispatched"
    /\ sent /= {}

RoundHalfEven(x100) ==
    LET q == x100 \div 100
        r == x100 % 100
    IN  IF r > 50 THEN q + 1
        ELSE IF r < 50 THEN q
        ELSE IF q % 2 = 0 THEN q ELSE q + 1

\* C8 (as stated): the emitted ETA is round(distance * 2).
C8_EtaIsRounded ==
    \A k \in Attempts :
        assignments[k].a.kind = "crew"
            => assignments[k].a.eta = RoundHalfEven(2 * assignments[k].a.distance.v)

\* C8 (amended): the emitted ETA is distance * 2 with the fraction cut off:
\* the largest whole number of minutes not above distance * 2.
C8_EtaIsTruncated ==
    \A k \in Attempts :
        assignments[k].a.kind = "crew"
            => /\ 100 * assignments[k].a.eta <= 2 * assignments[k].a.distance.v
               /\ 2 * assignments[k].a.distance.v < 100 * (assignments[k].a.eta + 1)

\* A crew 0.75 km away was assigned: distance * 2 is 1.5.
C8_Witness ==
    \E k \in Attempts :
        /\ assignments[k].a.kind = "crew"
        /\ assignments[k].a.distance.v = 75

WellFormed(lat, lon) ==
    /\ lat.kind = "num" /\ lat.v >= -9000000 /\ lat.v <= 9000000
    /\ lon.kind = "num" /\ lon.v >= -18000000 /\ lon.v <= 18000000

\* C9 (as stated): when distances are computed (a crew is available) and the
\* outage coordinate or an available crew's coordinate is malformed, the
\* assignment for that outage fails: no crew is assigned.  Any exception
\* counts as failing.
C9_MalformedCoordinateRejected ==
    \A k \in Attempts :
        (/\ YesCrews /= {}
         /\ \/ ~WellFormed(outage_df[assignments[k].outage].lat,
                           outage_df[assignments[k].outage].lon)
            \/ \E i \in YesCrews : ~WellFormed(crew_df[i].lat, crew_df[i].lon))
            => assignments[k].a.kind = "error"

\* C10: every assignment the loop produced either names a crew and carries a
\* defined, non-negative distance, or is the manual-assignment result and
\* names no crew and carries no route from a crew; never both, never neither.
C10_AssignmentShape ==
    \A k \in Attempts :
        assignments[k].a.kind /= "error"
            => /\ assignments[k].a.crew /= 0
                  => /\ assignments[k].a.distance.kind = "num"
                     /\ assignments[k].a.distance.v >= 0
               /\ assignments[k].a.kind = "manual"
                  => /\ assignments[k].a.crew = 0
                     /\ assignments[k].link.kind /= "route"
               /\ (assignments[k].a.crew /= 0) /= (assignments[k].a.kind = "manual")

\* A crew was assigned from a pool in which another available crew has no
\* latitude, so that crew's distance is NaN.
C10_Witness ==
    \E k \in Attempts :
        /\ assignments[k].a.kind = "crew"
        /\ assignments[k].a.crew /= 0
        /\ \E i \in YesCrews : DistanceTo(assignments[k].outage, i).kind = "nan"

\* Attempts whose send completed, whose report file was written, and whose
\* report file has been removed again.
SendCompleted == { k \in 1..Len(outcomes) : outcomes[k] \in {"sent", "cleanup_failed"} }
ReportWritten ==
    { k \in 1..Len(outcomes) : outcomes[k] \in {"sent", "cleanup_failed", "send_failed"} }
ReportDeleted == { k \in ReportWritten : attempted[k] \notin files }

\* C11: processed_count is the number of outages visited so far whose send
\* completed; an outage is counted at most once and never when its processing
\* or its send failed, so the count exceeds neither the outages visited nor
\* the active outages; a report file is removed only for an outage whose send
\* completed.
C11_CountIsCompletedSends ==
    /\ processed_count = Cardinality(SendCompleted)
    /\ processed_count = Cardinality(sent)
    /\ sent = { attempted[k] : k \in SendCompleted }
    /\ \A k \in 1..Len(outcomes) :
          outcomes[k] \in {"assign_error", "eta_error", "report_error", "send_failed"}
              => attempted[k] \notin sent
    /\ processed_count <= pos
    /\ processed_count <= Len(active_outages)
    /\ \A k \in ReportDeleted : attempted[k] \in sent

\* Two outages were visited: one send failed and left its report on disk, one
\* send completed and its report is gone; the count is 1.
C11_Witness ==
    /\ Len(outcomes) = 2
    /\ processed_count = 1
    /\ \E k \in 1..2 : outcomes[k] = "send_failed" /\ attempted[k] \in files
    /\ \E k \in 1..2 : outcomes[k] = "sent" /\ attempted[k] \notin files

====
